---- MODULE Spec2Model ----
(***************************************************************************)
(* A model of src/fb_copyarea.c: the fb_copyarea context (construction,    *)
(* teardown, thresholds) and the copy / fill dispatchers built on the      *)
(* FBIOCOPYAREA and FBIOFILLRECT ioctls.                                    *)
(*                                                                         *)
(* C "int" is 32 bits wide.  A signed product that does not fit is         *)
(* undefined behaviour and is modelled as a free choice of the branch the  *)
(* comparison takes.  Unsigned 32-bit products wrap; they are computed on  *)
(* pairs of 16-bit halves because they do not fit TLC's integers.  *)
(* Pointers are modelled as strings.                                       *)
(***************************************************************************)
EXTENDS Integers, Sequences, FiniteSets, TLC

VARIABLES
    pc,           \* "start", "live", "returned", "failed", "crashed", "closed"
    heap,         \* the calloc'ed fb_copyarea_t: "unallocated", "allocated", "freed"
    ctx,          \* the fields of the fb_copyarea_t
    fdState,      \* the device handle: "unopened", "open", "closed"
    closeCalls,   \* close() calls made on the handle that open() returned
    mapState,     \* the mapping made by mmap() in init: "none", "mapped"
    munmapped,    \* the addresses handed to munmap()
    env,          \* what the device answered during fb_copyarea_init
    last,         \* the most recent dispatcher call: arguments, events, result
    lastCopySet,  \* value passed to the most recent copy-threshold setter call
    lastFillSet   \* value passed to the most recent fill-threshold setter call

vars == <<pc, heap, ctx, fdState, closeCalls, mapState, munmapped, env, last,
          lastCopySet, lastFillSet>>

-----------------------------------------------------------------------------
(* Program constants *)

IntMax == 2147483647
IntMin == (-IntMax) - 1

COPYAREA_BLT_SIZE_THRESHOLD == 90
COPYAREA_FILL_SIZE_THRESHOLD == 16777216

-----------------------------------------------------------------------------
(* 32-bit arithmetic *)

\* a value 0 .. IntMax as a pair <<high 16 bits, low 16 bits>>
U32(n) == <<n \div 65536, n % 65536>>

Add32(a, b) ==
    LET lo == a[2] + b[2]
        hi == a[1] + b[1] + (lo \div 65536)
    IN  <<hi % 65536, lo % 65536>>

\* a * n modulo 2^32, by doubling
RECURSIVE Mul32(_, _)
Mul32(a, n) ==
    IF n = 0 THEN <<0, 0>>
    ELSE LET half == Mul32(a, n \div 2)
             dbl  == Add32(half, half)
         IN  IF n % 2 = 1 THEN Add32(dbl, a) ELSE dbl

\* a / 8 for an unsigned 32-bit a: the quotient is below 2^29
Div8(a) == a[1] * 8192 + (a[2] \div 8)

\* does the int product w * h leave the range of int?  (asked only of the
\* positive w and h that get past the zero-size test)
MulOverflows(w, h) == w > 0 /\ h > 0 /\ w > IntMax \div h

\* the truth values "w * h < t" can take: one when the product fits an int,
\* either when the signed multiplication overflows (undefined behaviour)
MulLess(w, h, t) ==
    IF MulOverflows(w, h) THEN BOOLEAN ELSE {w * h < t}

-----------------------------------------------------------------------------
(* The context *)

\* the fb_copyarea_t as calloc() returns it: every field zero / NULL
ZeroCtx ==
    [fd |-> 0, xserver_fbmem |-> "NULL", xres |-> 0, yres |-> 0,
     bits_per_pixel |-> 0, framebuffer_size |-> 0, gfx_layer_size |-> 0,
     framebuffer_stride |-> 0, framebuffer_addr |-> "NULL",
     self |-> "NULL", overlapped_blt |-> "NULL", fill |-> "NULL",
     dma_fill_threshold |-> 0, dma_copy_threshold |-> 0,
     fallback_blt2d |-> "NULL"]

\* no dispatcher call made yet
NoCall == [op |-> "none", args |-> <<>>, events |-> <<>>, ret |-> 0]

\* what FBIOGET_VSCREENINFO / FBIOGET_FSCREENINFO report
Geometries ==
    { [xres |-> 1024, yres |-> 768, bits_per_pixel |-> 32,
       line_length |-> 4096, smem_len |-> 3145728],
      [xres |-> 1024, yres |-> 768, bits_per_pixel |-> 16,
       line_length |-> 2048, smem_len |-> 8388608],
      [xres |-> 1024, yres |-> 768, bits_per_pixel |-> 16,
       line_length |-> 2050, smem_len |-> 8388608],
      [xres |-> 1024, yres |-> 768, bits_per_pixel |-> 32,
       line_length |-> 4096, smem_len |-> 1048576],
      [xres |-> 32768, yres |-> 32768, bits_per_pixel |-> 32,
       line_length |-> 131072, smem_len |-> 4096],
      [xres |-> 1, yres |-> 100, bits_per_pixel |-> 4,
       line_length |-> 4, smem_len |-> 10] }

\* the answers of the device and the caller's argument, for one init
\* (mmap is not called when the caller supplies a mapping: no answer is drawn)
InitEnvs ==
    { e \in [calloc_ok : BOOLEAN, open_ok : BOOLEAN, copyarea_ok : BOOLEAN,
             fillrect_ok : BOOLEAN, vscreeninfo_ok : BOOLEAN,
             fscreeninfo_ok : BOOLEAN, geometry : Geometries,
             mmap_ok : BOOLEAN, xserver_fbmem : {"NULL", "xserver_addr"}] :
        e.xserver_fbmem # "NULL" => e.mmap_ok }

NoEnv ==
    [calloc_ok |-> FALSE, open_ok |-> FALSE, copyarea_ok |-> FALSE,
     fillrect_ok |-> FALSE, vscreeninfo_ok |-> FALSE, fscreeninfo_ok |-> FALSE,
     geometry |-> [xres |-> 0, yres |-> 0, bits_per_pixel |-> 0,
                   line_length |-> 0, smem_len |-> 0],
     mmap_ok |-> FALSE, xserver_fbmem |-> "NULL"]

\* ctx->xres * ctx->yres * fb_var.bits_per_pixel / 8, in 32-bit arithmetic
GfxLayerSize(g) ==
    Div8(Mul32(Mul32(U32(g.xres), g.yres), g.bits_per_pixel))

\* the divisor of framebuffer_height: ctx->xres * ctx->bits_per_pixel / 8
HeightDivisor(g) == Div8(Mul32(U32(g.xres), g.bits_per_pixel))

\* (a faulty variant: the slot is filled whatever the probe said)
FillSlot_Unconditional(has_fillrect) == "fb_fill"

\* blt2d.fill after init: set only when the fill probe succeeded
FillSlot(has_fillrect) == IF has_fillrect THEN "fb_fill" ELSE "NULL"

\* the context fb_copyarea_init returns for the answers e
InitCtx(e) ==
    LET g == e.geometry IN
    [ZeroCtx EXCEPT
        !.fd = 3,
        !.xserver_fbmem = e.xserver_fbmem,
        !.xres = g.xres,
        !.yres = g.yres,
        !.bits_per_pixel = g.bits_per_pixel,
        !.framebuffer_size = g.smem_len,
        !.gfx_layer_size = GfxLayerSize(g),
        !.framebuffer_stride = g.line_length \div 4,
        !.framebuffer_addr = IF e.xserver_fbmem # "NULL"
                             THEN e.xserver_fbmem ELSE "mmap_addr",
        !.self = "ctx",
        !.overlapped_blt = "fb_copyarea_blt",
        !.fill = FillSlot(e.fillrect_ok),
        !.dma_fill_threshold = COPYAREA_FILL_SIZE_THRESHOLD,
        !.dma_copy_threshold = COPYAREA_BLT_SIZE_THRESHOLD]

\* the point at which fb_copyarea_init leaves, for the answers e:
\* "null_deref" (calloc failed, ctx->fd is written through NULL),
\* "open", "copyarea", "screeninfo", "align", "div0" (division by zero in
\* framebuffer_height), "size", "mmap" or "ok"
InitExit(e) ==
    LET g == e.geometry IN
    IF ~e.calloc_ok THEN "null_deref"
    ELSE IF ~e.open_ok THEN "open"
    ELSE IF ~e.copyarea_ok THEN "copyarea"
    ELSE IF ~e.vscreeninfo_ok \/ ~e.fscreeninfo_ok THEN "screeninfo"
    ELSE IF g.line_length % 4 # 0 THEN "align"
    ELSE IF HeightDivisor(g) = 0 THEN "div0"
    ELSE IF g.smem_len < GfxLayerSize(g) THEN "size"
    ELSE IF e.xserver_fbmem = "NULL" /\ ~e.mmap_ok THEN "mmap"
    ELSE "ok"

\* the exit taken once the division has been survived
AfterDivision(e) ==
    LET g == e.geometry IN
    IF g.smem_len < GfxLayerSize(g) THEN "size"
    ELSE IF e.xserver_fbmem = "NULL" /\ ~e.mmap_ok THEN "mmap"
    ELSE "ok"

\* the exits a build can produce: a division by zero either traps or
\* yields some value and execution goes on
InitExits(e) ==
    IF InitExit(e) = "div0" THEN {"trap", AfterDivision(e)} ELSE {InitExit(e)}

\* close(ctx->fd) on a failure path of init: counted when the handle is real
InitFailClose(exit) == IF exit = "open" THEN 0 ELSE 1

fb_copyarea_init ==
    /\ pc = "start"
    /\ \E e \in InitEnvs : \E exit \in InitExits(e) :
         /\ env' = e
         /\ IF exit \in {"null_deref", "trap"}
            THEN /\ pc' = "crashed"
                 /\ heap' = IF exit = "trap" THEN "allocated" ELSE "unallocated"
                 /\ ctx' = ZeroCtx
                 /\ fdState' = IF exit = "trap" THEN "open" ELSE "unopened"
                 /\ closeCalls' = 0
                 /\ mapState' = "none"
            ELSE IF exit = "ok"
            THEN /\ pc' = "live"
                 /\ heap' = "allocated"
                 /\ ctx' = InitCtx(e)
                 /\ fdState' = "open"
                 /\ closeCalls' = 0
                 /\ mapState' = IF e.xserver_fbmem = "NULL"
                                THEN "mapped" ELSE "none"
            ELSE /\ pc' = "failed"
                 /\ heap' = "freed"
                 /\ ctx' = ZeroCtx
                 /\ fdState' = IF exit = "open" THEN "unopened" ELSE "closed"
                 /\ closeCalls' = InitFailClose(exit)
                 /\ mapState' = "none"
    /\ last' = [NoCall EXCEPT !.op = "init"]
    /\ UNCHANGED <<munmapped, lastCopySet, lastFillSet>>

\* the addresses unmapped once fb_copyarea_close has run: it calls
\* close(ctx->fd) and free(ctx) and nothing else
CloseMunmapped(c, u) == u

fb_copyarea_close ==
    /\ pc = "live"
    /\ pc' = "closed"
    /\ fdState' = "closed"
    /\ closeCalls' = closeCalls + 1
    /\ heap' = "freed"
    /\ munmapped' = CloseMunmapped(ctx, munmapped)
    /\ ctx' = ZeroCtx
    /\ last' = [NoCall EXCEPT !.op = "close"]
    /\ UNCHANGED <<mapState, env, lastCopySet, lastFillSet>>

-----------------------------------------------------------------------------
(* The dispatchers *)

\* results a fallback provider's overlapped_blt may return
FallbackRets == {0, 1, 7}

\* results of an ioctl: 0 on success, -1 on failure
IoctlRets == {0, -1}

\* (a faulty variant: success is reported when there is no fallback)
try_fallback_blt_Succeeds(c, a) ==
    IF c.fallback_blt2d # "NULL"
    THEN { [events |-> << [kind |-> "fallback", data |-> a, result |-> r] >>,
            ret |-> r] : r \in FallbackRets }
    ELSE { [events |-> <<>>, ret |-> 1] }

\* try_fallback_blt: the fallback's overlapped_blt with the same arguments,
\* its result returned; 0 when no fallback is set
try_fallback_blt(c, a) ==
    IF c.fallback_blt2d # "NULL"
    THEN { [events |-> << [kind |-> "fallback", data |-> a, result |-> r] >>,
            ret |-> r] : r \in FallbackRets }
    ELSE { [events |-> <<>>, ret |-> 0] }

\* (a faulty variant: the buffers are not compared with the framebuffer)
CopyCompatible_AnyBuffer(c, a) ==
    ~ ( a.src_bpp # a.dst_bpp \/ a.src_bpp # c.bits_per_pixel
        \/ a.src_stride # a.dst_stride \/ a.src_stride # c.framebuffer_stride
        \/ a.src_bits # a.dst_bits )

\* the condition of the first "if" that sends a copy to the fallback, negated
CopyCompatible(c, a) ==
    ~ ( a.src_bpp # a.dst_bpp \/ a.src_bpp # c.bits_per_pixel
        \/ a.src_stride # a.dst_stride \/ a.src_stride # c.framebuffer_stride
        \/ a.src_bits # a.dst_bits \/ a.src_bits # c.framebuffer_addr )

\* the struct fb_copyarea handed to FBIOCOPYAREA
CopyareaRequest(a) ==
    [sx |-> a.src_x, sy |-> a.src_y, dx |-> a.dst_x, dy |-> a.dst_y,
     width |-> a.w, height |-> a.h]

\* ret == 0
CopyResult(rc) == IF rc = 0 THEN 1 ELSE 0

\* (a faulty variant: both dimensions must be empty)
CopyDegenerate_Both(a) == a.w <= 0 /\ a.h <= 0

\* "Zero size blit, nothing to do"
CopyDegenerate(a) == a.w <= 0 \/ a.h <= 0

\* the outcomes of fb_copyarea_blt(c, a): events of the call and its result
CopyOutcomes(c, a) ==
    IF CopyDegenerate(a)
    THEN { [events |-> <<>>, ret |-> 1] }
    ELSE IF ~CopyCompatible(c, a)
    THEN try_fallback_blt(c, a)
    ELSE UNION { IF lt
                 THEN try_fallback_blt(c, a)
                 ELSE { [events |-> << [kind |-> "FBIOCOPYAREA",
                                        data |-> CopyareaRequest(a),
                                        result |-> rc] >>,
                         ret |-> CopyResult(rc)] : rc \in IoctlRets }
               : lt \in MulLess(a.w, a.h, c.dma_copy_threshold) }

\* the struct fb_fillrect handed to FBIOFILLRECT
FillrectRequest(a) ==
    [dx |-> a.dst_x, dy |-> a.dst_y, width |-> a.w, height |-> a.h,
     rop |-> "ROP_COPY", color |-> a.color]

\* (a faulty variant: the destination is not compared with the framebuffer)
FillRejected_AnyBuffer(c, a) == MulLess(a.w, a.h, c.dma_fill_threshold)

\* the condition of the "if" that makes fb_fill return 0: its truth values
FillRejected(c, a) ==
    IF a.dst_bits # c.framebuffer_addr
    THEN {TRUE}
    ELSE MulLess(a.w, a.h, c.dma_fill_threshold)

\* rc == 0 ? 1 : 0
FillResult(rc) == IF rc = 0 THEN 1 ELSE 0

\* "Zero size blit, nothing to do"
FillDegenerate(a) == a.w <= 0 \/ a.h <= 0

\* the outcomes of fb_fill(c, a)
FillOutcomes(c, a) ==
    IF FillDegenerate(a)
    THEN { [events |-> <<>>, ret |-> 1] }
    ELSE UNION { IF rej
                 THEN { [events |-> <<>>, ret |-> 0] }
                 ELSE { [events |-> << [kind |-> "FBIOFILLRECT",
                                        data |-> FillrectRequest(a),
                                        result |-> rc] >>,
                         ret |-> FillResult(rc)] : rc \in IoctlRets }
               : rej \in FillRejected(c, a) }

\* inputs of the dispatchers; a pair is <<source, destination>>, and every
\* value is the context's own in some context and foreign in another
Bits == {"mmap_addr", "xserver_addr"}
Strides == {512, 1024}
Depths == {16, 32}
BitsPairs == { <<"mmap_addr", "mmap_addr">>, <<"xserver_addr", "xserver_addr">>,
               <<"mmap_addr", "xserver_addr">> }
StridePairs == { <<512, 512>>, <<1024, 1024>>, <<512, 1024>> }
DepthPairs == { <<16, 16>>, <<32, 32>>, <<16, 32>> }
Origins == { [src_x |-> 0, src_y |-> 0, dst_x |-> 0, dst_y |-> 0],
             [src_x |-> 1, src_y |-> 2, dst_x |-> 3, dst_y |-> 4] }
Sizes == { <<0, 10>>, <<10, 0>>, <<-1, 10>>, <<65536, IntMin>>,
           <<IntMin, IntMin>>,
           <<1, 1>>, <<9, 10>>, <<10, 10>>, <<4095, 4096>>, <<4096, 4096>>,
           <<65536, 65536>>, <<IntMax, 2>> }
Colors == {0, 16711935}

CopyArgs ==
    { [src_bits |-> b[1], dst_bits |-> b[2],
       src_stride |-> s[1], dst_stride |-> s[2],
       src_bpp |-> d[1], dst_bpp |-> d[2],
       src_x |-> o.src_x, src_y |-> o.src_y, dst_x |-> o.dst_x, dst_y |-> o.dst_y,
       w |-> wh[1], h |-> wh[2]] :
      b \in BitsPairs, s \in StridePairs, d \in DepthPairs,
      o \in Origins, wh \in Sizes }

FillArgs ==
    { [dst_bits |-> db, dst_stride |-> ds, dst_bpp |-> dp,
       dst_x |-> o.dst_x, dst_y |-> o.dst_y, w |-> wh[1], h |-> wh[2],
       color |-> col] :
      db \in Bits, ds \in Strides, dp \in Depths, o \in Origins,
      wh \in Sizes, col \in Colors }

\* a call through blt2d.overlapped_blt
fb_copyarea_blt ==
    /\ pc = "live"
    /\ ctx.overlapped_blt = "fb_copyarea_blt"
    /\ \E a \in CopyArgs : \E o \in CopyOutcomes(ctx, a) :
         last' = [op |-> "copy", args |-> a, events |-> o.events, ret |-> o.ret]
    /\ pc' = "returned"
    /\ UNCHANGED <<heap, ctx, fdState, closeCalls, mapState, munmapped, env,
                   lastCopySet, lastFillSet>>

\* a call through blt2d.fill, which is the only way to reach the static fb_fill
fb_fill ==
    /\ pc = "live"
    /\ ctx.fill = "fb_fill"
    /\ \E a \in FillArgs : \E o \in FillOutcomes(ctx, a) :
         last' = [op |-> "fill", args |-> a, events |-> o.events, ret |-> o.ret]
    /\ pc' = "returned"
    /\ UNCHANGED <<heap, ctx, fdState, closeCalls, mapState, munmapped, env,
                   lastCopySet, lastFillSet>>

\* the caller has read the result of the dispatcher call and goes on
CallerResumes ==
    /\ pc = "returned"
    /\ pc' = "live"
    /\ last' = NoCall
    /\ UNCHANGED <<heap, ctx, fdState, closeCalls, mapState, munmapped, env,
                   lastCopySet, lastFillSet>>

-----------------------------------------------------------------------------
(* Thresholds and the fallback *)

\* values passed to the threshold setters
Thresholds == {1, 100}

SetFillThreshold(c, thresh) == [c EXCEPT !.dma_fill_threshold = thresh]

\* (a faulty variant: the copy setter writes the fill threshold)
SetCopyThreshold_WrongField(c, thresh) == [c EXCEPT !.dma_fill_threshold = thresh]

SetCopyThreshold(c, thresh) == [c EXCEPT !.dma_copy_threshold = thresh]

fb_copyarea_set_dma_fill_threshold ==
    /\ pc = "live"
    /\ \E thresh \in Thresholds :
         /\ ctx' = SetFillThreshold(ctx, thresh)
         /\ lastFillSet' = thresh
         /\ last' = [NoCall EXCEPT !.op = "set_fill", !.args = <<thresh>>]
    /\ UNCHANGED <<pc, heap, fdState, closeCalls, mapState, munmapped, env, lastCopySet>>

fb_copyarea_set_dma_copy_threshold ==
    /\ pc = "live"
    /\ \E thresh \in Thresholds :
         /\ ctx' = SetCopyThreshold(ctx, thresh)
         /\ lastCopySet' = thresh
         /\ last' = [NoCall EXCEPT !.op = "set_copy", !.args = <<thresh>>]
    /\ UNCHANGED <<pc, heap, fdState, closeCalls, mapState, munmapped, env, lastFillSet>>

\* the owner of the context stores a provider in ctx->fallback_blt2d, or NULL
SetFallback ==
    /\ pc = "live"
    /\ \E p \in {"NULL", "fallback_provider"} :
         /\ p # ctx.fallback_blt2d
         /\ ctx' = [ctx EXCEPT !.fallback_blt2d = p]
         /\ last' = [NoCall EXCEPT !.op = "set_fallback", !.args = <<p>>]
    /\ UNCHANGED <<pc, heap, fdState, closeCalls, mapState, munmapped, env,
                   lastCopySet, lastFillSet>>

-----------------------------------------------------------------------------

Init ==
    /\ pc = "start"
    /\ heap = "unallocated"
    /\ ctx = ZeroCtx
    /\ fdState = "unopened"
    /\ closeCalls = 0
    /\ mapState = "none"
    /\ munmapped = {}
    /\ env = NoEnv
    /\ last = NoCall
    /\ lastCopySet = COPYAREA_BLT_SIZE_THRESHOLD
    /\ lastFillSet = COPYAREA_FILL_SIZE_THRESHOLD

Next ==
    \/ fb_copyarea_init
    \/ fb_copyarea_close
    \/ fb_copyarea_blt
    \/ fb_fill
    \/ CallerResumes
    \/ fb_copyarea_set_dma_fill_threshold
    \/ fb_copyarea_set_dma_copy_threshold
    \/ SetFallback

Spec == Init /\ [][Next]_vars

-----------------------------------------------------------------------------
(* Vocabulary of the properties *)

Alive == pc \in {"live", "returned"}
CopyReturned == pc = "returned" /\ last.op = "copy"
FillReturned == pc = "returned" /\ last.op = "fill"
Positive == last.args.w > 0 /\ last.args.h > 0

\* the mathematical product w * h compared with a threshold t <= IntMax
ProductAtLeast(w, h, t) == MulOverflows(w, h) \/ w * h >= t
ProductBelow(w, h, t) == ~MulOverflows(w, h) /\ w * h < t

\* source and destination agree with each other and with the surface
GatePassed ==
    /\ last.args.src_bpp = last.args.dst_bpp
    /\ last.args.src_bpp = ctx.bits_per_pixel
    /\ last.args.src_stride = last.args.dst_stride
    /\ last.args.src_stride = ctx.framebuffer_stride
    /\ last.args.src_bits = last.args.dst_bits
    /\ last.args.src_bits = ctx.framebuffer_addr

HasFallback == ctx.fallback_blt2d # "NULL"

\* the copy was handed to the fallback or dropped for want of one
Delegated ==
    \/ ~GatePassed
    \/ ProductBelow(last.args.w, last.args.h, ctx.dma_copy_threshold)

Requests(kind) == { i \in 1..Len(last.events) : last.events[i].kind = kind }

-----------------------------------------------------------------------------
(* C1: a compatible copy of at least copy_threshold pixels, for any positive
   32-bit w and h, issues exactly one FBIOCOPYAREA request carrying
   (src_x, src_y, dst_x, dst_y, w, h), never calls the fallback, and returns
   success exactly when the request succeeded. *)
C1_AcceleratedCopy ==
    ( /\ CopyReturned
      /\ Positive
      /\ GatePassed
      /\ ProductAtLeast(last.args.w, last.args.h, ctx.dma_copy_threshold) )
    => /\ Len(last.events) = 1
       /\ last.events[1].kind = "FBIOCOPYAREA"
       /\ last.events[1].data =
            [sx |-> last.args.src_x, sy |-> last.args.src_y,
             dx |-> last.args.dst_x, dy |-> last.args.dst_y,
             width |-> last.args.w, height |-> last.args.h]
       /\ (last.ret # 0) <=> (last.events[1].result = 0)

(* C2: with a fallback configured, a copy that fails the gate, or passes it
   with w*h below copy_threshold, calls the fallback exactly once with the
   arguments unchanged, issues no FBIOCOPYAREA request, and returns what the
   fallback returned. *)
C2_FallbackDelegation ==
    (CopyReturned /\ Positive /\ HasFallback /\ Delegated)
    => /\ Len(last.events) = 1
       /\ last.events[1].kind = "fallback"
       /\ last.events[1].data = last.args
       /\ last.ret = last.events[1].result

C2_Witness ==
    /\ CopyReturned /\ Positive /\ HasFallback
    /\ GatePassed
    /\ ProductBelow(last.args.w, last.args.h, ctx.dma_copy_threshold)
    /\ last.args.w * last.args.h > 1
    /\ last.ret = 7

(* C3: without a fallback, a delegated copy returns 0, issues no request,
   and that is its only possible outcome. *)
C3_NoFallbackFails ==
    (CopyReturned /\ Positive /\ ~HasFallback /\ Delegated)
    => /\ last.ret = 0
       /\ last.events = <<>>
       /\ CopyOutcomes(ctx, last.args) = { [events |-> <<>>, ret |-> 0] }

C3_Witness ==
    /\ CopyReturned /\ Positive /\ ~HasFallback
    /\ ~GatePassed
    /\ ProductAtLeast(last.args.w, last.args.h, ctx.dma_copy_threshold)
    /\ last.ret = 0

(* C4: a copy or fill with w <= 0 or h <= 0 returns success and issues no
   request and no fallback call, whatever the rest of its arguments, the
   thresholds and the fallback are. *)
C4_DegenerateSucceeds ==
    ( /\ CopyReturned \/ FillReturned
      /\ last.args.w <= 0 \/ last.args.h <= 0 )
    => last.ret = 1 /\ last.events = <<>>

C4_Witness ==
    /\ CopyReturned /\ HasFallback
    /\ last.args.w = 10 /\ last.args.h = 0
    /\ ~GatePassed
    /\ last.ret = 1

(* C5: a fill whose destination is not the framebuffer, or whose w*h is
   below fill_threshold, returns 0 with no FBIOFILLRECT request and no
   fallback call, with or without a fallback. *)
C5_FillRejected ==
    ( /\ FillReturned
      /\ Positive
      /\ \/ last.args.dst_bits # ctx.framebuffer_addr
         \/ ProductBelow(last.args.w, last.args.h, ctx.dma_fill_threshold) )
    => last.ret = 0 /\ last.events = <<>>

C5_Witness ==
    /\ FillReturned /\ Positive /\ HasFallback
    /\ last.args.dst_bits = ctx.framebuffer_addr
    /\ ProductBelow(last.args.w, last.args.h, ctx.dma_fill_threshold)
    /\ last.ret = 0

(* C6: a fill of the framebuffer of at least fill_threshold pixels, for any
   positive 32-bit w and h, issues exactly one FBIOFILLRECT request with
   (dst_x, dst_y, w, h), rop ROP_COPY and the given color, and returns
   success exactly when the request succeeded. *)
C6_AcceleratedFill ==
    ( /\ FillReturned
      /\ Positive
      /\ last.args.dst_bits = ctx.framebuffer_addr
      /\ ProductAtLeast(last.args.w, last.args.h, ctx.dma_fill_threshold) )
    => /\ Len(last.events) = 1
       /\ last.events[1].kind = "FBIOFILLRECT"
       /\ last.events[1].data =
            [dx |-> last.args.dst_x, dy |-> last.args.dst_y,
             width |-> last.args.w, height |-> last.args.h,
             rop |-> "ROP_COPY", color |-> last.args.color]
       /\ (last.ret # 0) <=> (last.events[1].result = 0)

(* C7: in a context a successful init returned, blt2d.fill is set exactly
   when the 0x0 fill probe of that init succeeded and blt2d.overlapped_blt is
   always set; neither changes while the context lives. *)
C7_FillExposure ==
    /\ [](Alive => /\ (ctx.fill = "fb_fill") <=> env.fillrect_ok
                   /\ ctx.fill \in {"fb_fill", "NULL"}
                   /\ ctx.overlapped_blt = "fb_copyarea_blt")
    /\ [][(Alive /\ Alive') => /\ ctx'.fill = ctx.fill
                               /\ ctx'.overlapped_blt = ctx.overlapped_blt]_vars

C7_Witness ==
    /\ CopyReturned
    /\ ~env.fillrect_ok
    /\ ctx.fill = "NULL"
    /\ lastFillSet # COPYAREA_FILL_SIZE_THRESHOLD
    /\ lastCopySet # COPYAREA_BLT_SIZE_THRESHOLD

(* C8: after fb_copyarea_close the handle has been closed exactly once, a
   mapping made by init has been unmapped, and a mapping supplied by the
   caller has not. *)
C8_CloseReleases ==
    pc = "closed"
    => /\ fdState = "closed"
       /\ closeCalls = 1
       /\ (mapState = "mapped") => ("mmap_addr" \in munmapped)
       /\ (env.xserver_fbmem # "NULL") => (env.xserver_fbmem \notin munmapped)

\* the surface of g needs more bytes than the device reports:
\* smem_len < xres * yres * bits_per_pixel / 8, over the integers
SurfaceExceedsMemory(g) ==
    /\ g.xres > 0
    /\ g.yres > 0
    /\ g.bits_per_pixel > ((8 * g.smem_len + 7) \div g.xres) \div g.yres

\* one of the failures that must make init return no context
InitMustFail(e) ==
    \/ ~e.open_ok
    \/ ~e.copyarea_ok
    \/ ~e.vscreeninfo_ok
    \/ ~e.fscreeninfo_ok
    \/ e.geometry.line_length % 4 # 0
    \/ SurfaceExceedsMemory(e.geometry)
    \/ e.xserver_fbmem = "NULL" /\ ~e.mmap_ok

(* C9: init returns no context when the open, the copy probe, a geometry
   query or the mapping fails, when the stride is not a multiple of 4, or
   when the memory is smaller than the surface; then an opened handle has
   been closed exactly once, no mapping remains and the context is freed.
   A failed fill probe alone does not make init fail.  (A run in which init
   does not return at all is outside the statement.) *)
C9_InitFailure ==
    /\ (pc \notin {"start", "crashed"} /\ InitMustFail(env))
       => /\ pc = "failed"
          /\ heap = "freed"
          /\ fdState # "open"
          /\ closeCalls = (IF env.open_ok THEN 1 ELSE 0)
          /\ mapState = "none"
    /\ (last.op = "init" /\ env.calloc_ok /\ ~InitMustFail(env))
       => pc = "live"

\* the request of the dispatcher call that has just returned was accelerated
Accelerated(kind) == Requests(kind) # {}

(* C10: a fresh context has copy_threshold 90 and fill_threshold 2^24; a
   dispatch compares w*h with the value of the most recent call of the
   matching setter (the default when there was none); a setter leaves the
   other threshold, the fill exposure and the fallback as they were. *)
C10_Thresholds ==
    /\ []( /\ (pc = "live" /\ last.op = "init")
              => /\ ctx.dma_copy_threshold = 90
                 /\ ctx.dma_fill_threshold = 16777216
           /\ ( /\ CopyReturned /\ Positive /\ GatePassed
                /\ ~MulOverflows(last.args.w, last.args.h) )
              => ( Accelerated("FBIOCOPYAREA")
                   <=> last.args.w * last.args.h >= lastCopySet )
           /\ ( /\ FillReturned /\ Positive
                /\ last.args.dst_bits = ctx.framebuffer_addr
                /\ ~MulOverflows(last.args.w, last.args.h) )
              => ( Accelerated("FBIOFILLRECT")
                   <=> last.args.w * last.args.h >= lastFillSet ) )
    /\ [][ /\ (last'.op = "set_copy")
              => ctx' = [ctx EXCEPT !.dma_copy_threshold = last'.args[1]]
           /\ (last'.op = "set_fill")
              => ctx' = [ctx EXCEPT !.dma_fill_threshold = last'.args[1]] ]_vars

C10_Witness ==
    /\ CopyReturned /\ Positive /\ GatePassed
    /\ last.args.w = 9 /\ last.args.h = 10
    /\ lastCopySet = 100
    /\ lastFillSet = 1
    /\ ~Accelerated("FBIOCOPYAREA")

====
